---- MODULE Spec2Model ----
(***************************************************************************)
(* Model of src/bot.py: a Telegram bot that downloads media with yt-dlp.   *)
(*                                                                         *)
(* The coroutines handle_message, button_handler and download_media are    *)
(* cut at their await points: one action is "the awaited call completes    *)
(* (normally or by raising) and the coroutine runs on to its next await".  *)
(* The two signaler tasks (send_typing_action, send_upload_action) are     *)
(* asyncio tasks that interleave with the running handler at those points. *)
(*                                                                         *)
(* Dispatch: main() builds the Application without concurrent_updates and  *)
(* registers every handler with the default block=True, so the library     *)
(* awaits one handler to its end before it takes the next update from its  *)
(* queue.  Updates of the users arrive (are queued) at any time.           *)
(***************************************************************************)
EXTENDS Integers, Sequences, FiniteSets, TLC

\* ---------------------------------------------------------------- bounds
MaxUpdates == 4      \* inbound updates (link messages, button presses) in a run
MaxUpdatesTwoSessions == 3   \* the same, in a run in which two sessions take part

\* ------------------------------------------------------------ small sets
None == "None"              \* an absent string-valued field
NoPath == <<>>              \* an absent path (None)
NoInfo == [none |-> TRUE]   \* extract_info returned None
NoUrl == {None}             \* user_data holds no 'pending_youtube_url'
NoMsg == <<>>               \* message_id None / no such message
Sessions == {"u1", "u2"}
Exts == {"mp4", "mp3"}
ExtPlaceholder == "%(ext)s"
Qualities == {"360", "480", "720", "1080"}

\* A URL is modelled by the set of host patterns that re.search finds in it.
URLs == { {"youtube"}, {"soundcloud"}, {"tiktok"}, {} }

\* Faulty variant of get_url_type: the tiktok branch is missing.
get_url_type_NoTikTok(url) ==
    IF "youtube" \in url THEN "youtube"
    ELSE IF "soundcloud" \in url THEN "soundcloud"
    ELSE "unknown"

\* src/bot.py:35-44
get_url_type(url) ==
    IF "youtube" \in url THEN "youtube"
    ELSE IF "soundcloud" \in url THEN "soundcloud"
    ELSE IF "tiktok" \in url THEN "tiktok"
    ELSE "unknown"

\* -------------------------------------------------------- user-facing texts
T_Processing == "Processing link..."
T_Downloading == "Downloading..."
T_UploadingAudio == "Uploading audio..."
T_UploadingVideo == "Uploading video..."
T_TooLarge == "Error: File is too large for Telegram."
T_UploadTimeout == "Error: Upload timed out."
T_SendFailed == "Error sending file."
T_Unsupported == "Download failed: Unsupported URL or format."
T_ExtractFailed == "Download failed: Could not extract information from the link."
T_Unavailable == "Download failed: Video is unavailable."
T_DownloadFailed == "Download failed. Please check the link."
T_NotFound == "Error: Could not find the downloaded file after processing."
T_Unexpected == "An unexpected server error occurred."
T_Expired == "Error: Could not find the original YouTube URL."

\* ------------------------------------------------- yt-dlp error messages
\* str(e) of a yt_dlp.utils.DownloadError is modelled by its ':'-separated
\* segments, each segment by the set of marker phrases it contains.
Phrases == {"Unsupported URL", "Unable to extract", "Video unavailable"}
DownloadErrorMessages ==
    { <<{}, {"Unsupported URL"}, {}, {}>>,   \* "ERROR: Unsupported URL: https://host/x"
      <<{}, {}, {"Unable to extract"}>>,      \* "ERROR: [site] id: Unable to extract title"
      <<{}, {}, {"Video unavailable"}>>,      \* "ERROR: [youtube] id: Video unavailable"
      <<{"Video unavailable"}>>,              \* "Video unavailable"
      <<{}, {}>> }                            \* "ERROR: something else"

\* The phrases found anywhere in str(e).
PhrasesOf(msg) == UNION { msg[i] : i \in 1..Len(msg) }

\* The acquisition failure kind the engine reports with the message.
ErrorKind(msg) ==
    IF "Unsupported URL" \in PhrasesOf(msg) THEN "unsupported-url"
    ELSE IF "Unable to extract" \in PhrasesOf(msg) THEN "extraction-failed"
    ELSE IF "Video unavailable" \in PhrasesOf(msg) THEN "source-unavailable"
    ELSE "engine-error"

\* The user-facing text of an acquisition failure kind (src/bot.py:240-246).
KindText(kind) ==
    CASE kind = "unsupported-url" -> T_Unsupported
      [] kind = "extraction-failed" -> T_ExtractFailed
      [] kind = "source-unavailable" -> T_Unavailable
      [] OTHER -> T_DownloadFailed

\* src/bot.py:237-238: str(e).split(':')[-1] when there is a ':', else str(e)
simple_error(msg) == IF Len(msg) > 1 THEN msg[Len(msg)] ELSE msg[1]

\* src/bot.py:239-246
download_error_message(msg) ==
    IF "Unsupported URL" \in simple_error(msg) THEN T_Unsupported
    ELSE IF "Unable to extract" \in simple_error(msg) THEN T_ExtractFailed
    ELSE IF "Video unavailable" \in simple_error(msg) THEN T_Unavailable
    ELSE T_DownloadFailed

\* Send failures: the marker phrase found in str(send_error), if any.
SendErrors == {"Request Entity Too Large", "Timed out", "other"}

\* src/bot.py:215-221
send_error_message(detail) ==
    IF detail = "Request Entity Too Large" THEN T_TooLarge
    ELSE IF detail = "Timed out" THEN T_UploadTimeout
    ELSE T_SendFailed

\* --------------------------------------------------------- format options
\* A format spec is its '/'-separated alternatives, each its '+'-separated
\* selectors, each selector its name and its [height<=..] and [ext=..] filters.
Selector(name, height, ext) == [name |-> name, height |-> height, ext |-> ext]

\* src/bot.py:331 and 430: 'bestaudio/best'
AudioFormat ==
    << <<Selector("bestaudio", None, None)>>, <<Selector("best", None, None)>> >>

\* src/bot.py:347: 'bestvideo+bestaudio/best'
TikTokFormat ==
    << <<Selector("bestvideo", None, None), Selector("bestaudio", None, None)>>,
       <<Selector("best", None, None)>> >>

\* Faulty variant of QualityFormat: the single-file fallback lost its height
\* filter and comes before the relaxed pair.
QualityFormat_Unordered(quality) ==
    << <<Selector("bestvideo", quality, "mp4"), Selector("bestaudio", None, "m4a")>>,
       <<Selector("best", None, None)>>,
       <<Selector("bestvideo", quality, None), Selector("bestaudio", None, None)>> >>

\* src/bot.py:484
QualityFormat(quality) ==
    << <<Selector("bestvideo", quality, "mp4"), Selector("bestaudio", None, "m4a")>>,
       <<Selector("bestvideo", quality, None), Selector("bestaudio", None, None)>>,
       <<Selector("best", quality, None)>>,
       <<Selector("best", None, None)>> >>

\* Faulty variant of file_type: only the 'mp4' prefix counts as video.
file_type_Mp4Only(format) ==
    IF format[1][1].name = "mp4" THEN "video" ELSE "audio"

\* src/bot.py:174: format.startswith(('bv', 'bestvideo', 'mp4'))
file_type(format) ==
    IF format[1][1].name \in {"bv", "bestvideo", "mp4"} THEN "video" ELSE "audio"

\* ------------------------------------------------------------ filesystem
\* A path under DOWNLOAD_PATH is <<token, extension>>: "<token>.<extension>".
Path(token, ext) == <<token, ext>>
TokenOf(path) == path[1]

\* src/bot.py:119: os.path.join(DOWNLOAD_PATH, f"{uuid4()}.%(ext)s")
OutTmpl(token) == Path(token, ExtPlaceholder)

\* The files one engine run may leave under its output template.
EngineFileSets(token) == SUBSET { Path(token, e) : e \in Exts }

\* The files a failed engine run may leave: none, or a partial download.
FailedFileSets(token) == { {}, {Path(token, "mp4")} }

\* The paths an engine result may report.
ReportedPaths(token) == { Path(token, e) : e \in Exts }

\* What yt-dlp's extract_info may return: None, or a dict whose fields may be
\* absent (None), read with .get.
InfoDicts(token) ==
    {NoInfo} \cup
    [ requested_downloads :
          {<<>>} \cup { <<[filepath |-> p]>> : p \in ReportedPaths(token) \cup {NoPath} },
      filepath : ReportedPaths(token) \cup {NoPath},
      x_filename : {Path(token, "mp4"), NoPath},
      ext : Exts \cup {None} ]

\* Faulty variant of ManifestPath: a top-level filepath field is read first.
ManifestPath_TopLevelFirst(info_dict) ==
    IF info_dict # NoInfo /\ info_dict.filepath # NoPath
    THEN info_dict.filepath
    ELSE IF info_dict # NoInfo /\ info_dict.requested_downloads # <<>>
    THEN info_dict.requested_downloads[1].filepath
    ELSE NoPath

\* src/bot.py:137-138
ManifestPath(info_dict) ==
    IF info_dict # NoInfo /\ info_dict.requested_downloads # <<>>
    THEN info_dict.requested_downloads[1].filepath
    ELSE NoPath

\* src/bot.py:141-142
TopLevelPath(info_dict) ==
    IF info_dict.filepath # NoPath THEN info_dict.filepath ELSE info_dict.x_filename

\* src/bot.py:147-150
GuessedPath(info_dict, outtmpl) ==
    IF outtmpl[2] = ExtPlaceholder /\ info_dict.ext # None
    THEN Path(outtmpl[1], info_dict.ext)
    ELSE outtmpl

\* src/bot.py:152-162: the values step 3 may leave in actual_filepath
\* (os.listdir returns the entries in arbitrary order; the first match wins).
TemplatePaths(info_dict, outtmpl, disk) ==
    LET guessed_path == GuessedPath(info_dict, outtmpl)
        matches == { f \in disk : TokenOf(f) = TokenOf(outtmpl) }
    IN  IF guessed_path[2] = ExtPlaceholder \/ guessed_path = outtmpl
        THEN IF matches = {} THEN {NoPath} ELSE matches
        ELSE IF guessed_path \in disk THEN {guessed_path} ELSE {NoPath}

\* src/bot.py:135-162: the values actual_filepath may hold before line 164
ActualFilepaths(info_dict, outtmpl, disk) ==
    LET a1 == ManifestPath(info_dict)
        a2 == IF a1 = NoPath /\ info_dict # NoInfo THEN TopLevelPath(info_dict) ELSE a1
    IN  IF a2 = NoPath /\ info_dict # NoInfo
        THEN TemplatePaths(info_dict, outtmpl, disk)
        ELSE {a2}

\* Faulty variant of LocatedPaths: without the existence check of line 164.
LocatedPaths_Unchecked(info_dict, outtmpl, disk) ==
    ActualFilepaths(info_dict, outtmpl, disk)

\* src/bot.py:164-168: the located file, or NoPath for FileNotFoundError
LocatedPaths(info_dict, outtmpl, disk) ==
    { IF p # NoPath /\ p \in disk THEN p ELSE NoPath :
        p \in ActualFilepaths(info_dict, outtmpl, disk) }

\* ------------------------------------------------------------------ state
VARIABLES
    users,            \* the sessions whose users take part in the run
    user_data,        \* context.user_data of each session
    selection,        \* history: the link message that last stored a pending URL
                      \* and whether a format choice of mp4 was processed for it
    update_queue,     \* updates received and not yet dispatched
    n_updates,        \* number of updates received so far
    prompts,          \* the bot's button messages that exist in the chats
    h,                \* the handler coroutine being run by the dispatcher
    dm,               \* the current (or last) download_media call
    processing_task,  \* asyncio task running send_typing_action
    upload_task,      \* asyncio task running send_upload_action
    disk,             \* the files under DOWNLOAD_PATH named after the uuid4 token
                      \* of the current call (no call reads, matches or removes a
                      \* file named after another token)
    acquisitions,     \* history: for each link message that stored a pending URL,
                      \* the number of engine calls started for that selection
    delete_calls,     \* history: the message ids the current handler has issued a
                      \* delete call for
    locator_run       \* one run of the Output Locator (lines 134-168) on its own:
                      \* its inputs and, once it has run, its result

vars == << users, user_data, selection, update_queue, n_updates, prompts, h, dm,
           processing_task, upload_task, disk, acquisitions, delete_calls,
           locator_run >>

NoTask == [state |-> "none"]
\* asyncio.create_task (lines 114, 179): the task will run its coroutine.
NewTask == [state |-> "ready"]
NoSelection == [link |-> NoMsg, mp4 |-> FALSE]
NoUpdate == [kind |-> "none", n |-> 0, s |-> "u1", url |-> NoUrl, msg |-> NoMsg,
             data |-> <<>>]
IdleHandler == [pc |-> "idle", update |-> NoUpdate, url |-> NoUrl,
                message_id |-> NoMsg, branch |-> "none", dm_raised |-> FALSE,
                had_pending |-> FALSE]
NoResult == [kind |-> "none", msg |-> <<>>]
NoCall == [pc |-> "none", s |-> "u1", url |-> NoUrl, format |-> <<>>,
           message_id |-> NoMsg, token |-> 0, status_id |-> NoMsg,
           status_text |-> None, status_deleted |-> FALSE, edits |-> {},
           fallback_sent |-> FALSE, result |-> NoResult,
           downloaded_file_path |-> NoPath, error_message |-> None,
           file_type |-> None, verb |-> None, send |-> "none",
           send_kwargs |-> {},
           started |-> FALSE]

NoRun == [info_dict |-> NoInfo, disk |-> {}, result |-> <<>>]

InitFor(active, run) ==
    /\ users = active
    /\ user_data = [s \in Sessions |->
                      [pending_youtube_url |-> NoUrl, processing |-> FALSE,
                       uploading |-> FALSE]]
    /\ selection = [s \in Sessions |-> NoSelection]
    /\ update_queue = <<>>
    /\ n_updates = 0
    /\ prompts = {}
    /\ h = IdleHandler
    /\ dm = NoCall
    /\ processing_task = NoTask
    /\ upload_task = NoTask
    /\ disk = {}
    /\ acquisitions = [l \in {} |-> 0]
    /\ delete_calls = {}
    /\ locator_run = run

\* --------------------------------------------------------------- the users
\* The quality buttons the users press in a run: every button of the keyboard
\* of lines 455-464.
PressedQualities == Qualities

\* The inline keyboard a button message shows, by its text.
Buttons(text) ==
    CASE text = "choose-format" -> { <<"yt_format", "mp3">>, <<"yt_format", "mp4">> }
      [] text = "choose-quality" -> { <<"yt_quality", q>> : q \in PressedQualities }
      [] OTHER -> {}

\* Message ids: the n-th update brings (or causes the bot to send) the messages
\* <<n, role>>; its download, if any, gets the uuid4 token n.
Msg(n, role) == <<n, role>>

HandlerRunning == h.pc # "idle"

\* Updates arrive at any time.  The dispatcher takes them in order and one at a
\* time, so an arrival during a handler differs from one before that handler
\* was dispatched only by the buttons the chat shows; the arrivals during a
\* handler are therefore taken while its engine call runs, the long await.
ArrivalPossible ==
    /\ n_updates < (IF Cardinality(users) = 1 THEN MaxUpdates
                    ELSE MaxUpdatesTwoSessions)
    /\ ~HandlerRunning \/ dm.pc = "engine"

\* A user sends a text message with a link (src/bot.py:518-521).
UserSendsLink ==
    /\ ArrivalPossible
    /\ \E s \in users, url \in URLs :
         /\ n_updates = 0 => s = "u1"      \* the sessions are interchangeable
         /\ update_queue' = Append(update_queue,
             [kind |-> "message", n |-> n_updates + 1, s |-> s, url |-> url,
              msg |-> Msg(n_updates + 1, "link"), data |-> <<>>])
    /\ n_updates' = n_updates + 1
    /\ UNCHANGED << locator_run, users, user_data, selection, prompts, h, dm, processing_task,
                    upload_task, disk, acquisitions, delete_calls >>

\* A user presses a button of an existing button message (src/bot.py:525,
\* callback_data of 363-364 and 457-462).
UserPressesButton ==
    /\ ArrivalPossible
    /\ \E p \in prompts : \E b \in Buttons(p.text) :
         update_queue' = Append(update_queue,
             [kind |-> "callback", n |-> n_updates + 1, s |-> p.s, url |-> NoUrl,
              msg |-> p.id, data |-> b])
    /\ n_updates' = n_updates + 1
    /\ UNCHANGED << locator_run, users, user_data, selection, prompts, h, dm, processing_task,
                    upload_task, disk, acquisitions, delete_calls >>

\* ----------------------------------------------------------- the dispatcher
\* Faulty variant of DispatchReady: updates are processed concurrently.
DispatchReady_Concurrent == update_queue # <<>>

\* Application.builder()...build() without concurrent_updates (src/bot.py:511):
\* the next update is processed when the previous handler has ended.
DispatchReady == ~HandlerRunning /\ update_queue # <<>>

\* The handler ends normally or by an exception.
EndHandler(hh, failed) == [hh EXCEPT !.pc = IF failed THEN "failed" ELSE "done"]

\* download_media(url, format_options, update, context), lines 94-109: the
\* call runs to its first await, the send of the status message.
CallDownloadMedia(s, url, format, message_id) ==
    [NoCall EXCEPT !.pc = "send_status", !.s = s, !.url = url, !.format = format,
                   !.message_id = message_id]

\* The handler has ended ("done", or "failed" by an exception): the
\* dispatcher goes back to its queue.  The records of the ended handler, of its
\* download_media call and of its ended tasks are dropped.
\* The files the ended call left behind stay on the real disk; they are
\* named after its token and are out of the view of every later call.
HandlerReturned ==
    /\ h.pc \in {"done", "failed"}
    /\ h' = IdleHandler
    /\ dm' = NoCall
    /\ processing_task' = NoTask
    /\ upload_task' = NoTask
    /\ delete_calls' = {}
    /\ disk' = {}
    /\ UNCHANGED << locator_run, users, user_data, selection, update_queue, n_updates, prompts,
                    acquisitions >>

\* handle_message, lines 310-372, up to its first await.
DispatchMessage ==
    /\ DispatchReady
    /\ Head(update_queue).kind = "message"
    /\ LET u == Head(update_queue)
           url_type == get_url_type(u.url)
           hh == [IdleHandler EXCEPT !.update = u, !.url = u.url,
                                     !.message_id = u.msg]
       IN  /\ update_queue' = Tail(update_queue)
           /\ IF url_type \in {"soundcloud", "tiktok"}
              THEN /\ h' = [hh EXCEPT !.pc = "hm_chat_action", !.branch = url_type]
                   /\ UNCHANGED << locator_run, users, user_data, selection >>
              ELSE IF url_type = "youtube"
              THEN /\ user_data' = [user_data EXCEPT
                                      ![u.s].pending_youtube_url = u.url]
                   /\ selection' = [selection EXCEPT
                                      ![u.s] = [link |-> u.msg, mp4 |-> FALSE]]
                   /\ h' = [hh EXCEPT !.pc = "hm_reply", !.branch = "youtube"]
              ELSE /\ h' = [hh EXCEPT !.pc = "hm_reject", !.branch = "unknown"]
                   /\ UNCHANGED << locator_run, users, user_data, selection >>
    /\ UNCHANGED << locator_run, users, n_updates, prompts, dm, processing_task, upload_task, disk,
                    acquisitions, delete_calls >>

\* lines 328 / 344: send_chat_action completes; on success download_media is
\* called with the profile of lines 330-340 / 346-351.
HM_ChatActionDone ==
    /\ h.pc = "hm_chat_action"
    /\ \E ok \in BOOLEAN :
         IF ok
         THEN /\ h' = [h EXCEPT !.pc = "hm_in_dm"]
              /\ dm' = CallDownloadMedia(h.update.s, h.url,
                          IF h.branch = "soundcloud" THEN AudioFormat
                          ELSE TikTokFormat, h.message_id)
         ELSE /\ h' = EndHandler(h, TRUE)
              /\ UNCHANGED dm
    /\ UNCHANGED << locator_run, users, user_data, selection, update_queue, n_updates, prompts,
                    processing_task, upload_task, disk, acquisitions, delete_calls >>

\* line 369: reply_text with the format keyboard completes.
HM_ReplyDone ==
    /\ h.pc = "hm_reply"
    /\ \E ok \in BOOLEAN :
         IF ok
         THEN /\ prompts' = prompts \cup
                    { [id |-> Msg(h.update.n, "prompt"), s |-> h.update.s,
                       link |-> h.message_id, text |-> "choose-format"] }
              /\ h' = EndHandler(h, FALSE)
         ELSE /\ h' = EndHandler(h, TRUE)
              /\ UNCHANGED prompts
    /\ UNCHANGED << locator_run, users, user_data, selection, update_queue, n_updates, dm,
                    processing_task, upload_task, disk, acquisitions, delete_calls >>

\* line 372: reply_text with the rejection completes.
HM_RejectDone ==
    /\ h.pc = "hm_reject"
    /\ \E ok \in BOOLEAN : h' = EndHandler(h, ~ok)
    /\ UNCHANGED << locator_run, users, user_data, selection, update_queue, n_updates, prompts,
                    dm, processing_task, upload_task, disk, acquisitions,
                    delete_calls >>

\* ------------------------------------------------------------ button_handler
\* lines 377-380: the handler runs to its first await, query.answer().
DispatchCallback ==
    /\ DispatchReady
    /\ Head(update_queue).kind = "callback"
    /\ update_queue' = Tail(update_queue)
    /\ h' = [IdleHandler EXCEPT
                !.pc = "bh_answer", !.update = Head(update_queue),
                !.had_pending =
                    user_data[Head(update_queue).s].pending_youtube_url # NoUrl]
    /\ UNCHANGED << locator_run, users, user_data, selection, n_updates, prompts, dm, processing_task,
                    upload_task, disk, acquisitions, delete_calls >>

\* The button message the callback query belongs to, if it still exists.
PromptOf(update) == { p \in prompts : p.id = update.msg }

\* query.edit_message_text(text): the button message gets the text (and the
\* keyboard that goes with it; no reply_markup removes the keyboard).
EditPrompt(update, text) ==
    { IF p.id = update.msg THEN [p EXCEPT !.text = text] ELSE p : p \in prompts }

\* An edit or delete of the button message can succeed only while it exists.
PromptResults(update) == IF PromptOf(update) = {} THEN {FALSE} ELSE BOOLEAN

\* line 380 completes; lines 383-423 run to the next await of the branch.
BH_AnswerDone ==
    /\ h.pc = "bh_answer"
    /\ \E ok \in BOOLEAN :
         IF ~ok
         THEN h' = EndHandler(h, TRUE)
         ELSE LET url == user_data[h.update.s].pending_youtube_url
                  action == h.update.data[1]
                  value == h.update.data[2]
              IN  IF url = NoUrl
                  THEN h' = [h EXCEPT !.pc = "bh_expired", !.branch = "expired"]
                  ELSE \E original \in {NoMsg} \cup { p.link : p \in PromptOf(h.update) } :
                         h' = [h EXCEPT
                                 !.url = url,
                                 !.message_id = original,
                                 !.branch = IF action = "yt_quality" THEN "quality"
                                            ELSE value,
                                 !.pc = IF action = "yt_format" /\ value = "mp4"
                                        THEN "bh_ask_quality" ELSE "bh_preparing"]
    /\ UNCHANGED << locator_run, users, user_data, selection, update_queue, n_updates, prompts,
                    dm, processing_task, upload_task, disk, acquisitions,
                    delete_calls >>

\* lines 396-400: the edit to the selection-expired text completes; return.
BH_ExpiredDone ==
    /\ h.pc = "bh_expired"
    /\ \E ok \in PromptResults(h.update) :
         prompts' = IF ok THEN EditPrompt(h.update, "expired") ELSE prompts
    /\ h' = EndHandler(h, FALSE)
    /\ UNCHANGED << locator_run, users, user_data, selection, update_queue, n_updates, dm,
                    processing_task, upload_task, disk, acquisitions, delete_calls >>

\* lines 429-439 and 483-489: the options built for the choice.
ChoiceFormat(hh) ==
    IF hh.branch = "mp3" THEN AudioFormat ELSE QualityFormat(hh.update.data[2])

\* lines 425-441 / 478-491: the "Preparing..." edit completes (a failure is
\* only logged) and download_media is called.
BH_PreparingDone ==
    /\ h.pc = "bh_preparing"
    /\ \E ok \in PromptResults(h.update) :
         prompts' = IF ok THEN EditPrompt(h.update, "preparing") ELSE prompts
    /\ h' = [h EXCEPT !.pc = "bh_in_dm"]
    /\ dm' = CallDownloadMedia(h.update.s, h.url, ChoiceFormat(h), h.message_id)
    /\ UNCHANGED << locator_run, users, user_data, selection, update_queue, n_updates,
                    processing_task, upload_task, disk, acquisitions, delete_calls >>

\* Faulty variant of Popped: the stored URL is left in place.
Popped_Skipped(ud, s) == ud

\* Faulty variant of Popped: the URL is kept in one place for all users.
Popped_AllSessions(ud, s) ==
    [t \in DOMAIN ud |-> [ud[t] EXCEPT !.pending_youtube_url = NoUrl]]

\* context.user_data.pop(url_key, None), lines 444, 472, 494
Popped(ud, s) == [ud EXCEPT ![s].pending_youtube_url = NoUrl]

\* lines 453-473: the edit that shows the quality keyboard completes; on a
\* failure the stored URL is cleared.
BH_AskQualityDone ==
    /\ h.pc = "bh_ask_quality"
    /\ \E ok \in PromptResults(h.update) :
         IF ok
         THEN /\ prompts' = EditPrompt(h.update, "choose-quality")
              /\ selection' = [selection EXCEPT ![h.update.s].mp4 = TRUE]
              /\ UNCHANGED user_data
         ELSE /\ user_data' = Popped(user_data, h.update.s)
              /\ UNCHANGED << prompts, selection >>
    /\ h' = EndHandler(h, FALSE)
    /\ UNCHANGED << locator_run, users, update_queue, n_updates, dm, processing_task,
                    upload_task, disk, acquisitions, delete_calls >>

\* lines 446-450 / 496-500: query.delete_message() completes (a failure is
\* only logged); an exception of download_media then leaves the handler.
BH_DeleteDone ==
    /\ h.pc = "bh_delete"
    /\ \E ok \in PromptResults(h.update) :
         prompts' = IF ok THEN prompts \ PromptOf(h.update) ELSE prompts
    /\ h' = EndHandler(h, h.dm_raised)
    /\ UNCHANGED << locator_run, users, user_data, selection, update_queue, n_updates, dm,
                    processing_task, upload_task, disk, acquisitions, delete_calls >>

\* The caller resumes when download_media has returned or raised: handle_message
\* ends (lines 341, 352); button_handler runs its finally block (lines 442-448 /
\* 492-498) to the await of query.delete_message().
ReturnToHandler(ud, raised) ==
    IF h.pc = "hm_in_dm"
    THEN /\ h' = EndHandler(h, raised)
         /\ user_data' = ud
         /\ UNCHANGED delete_calls
    ELSE /\ h' = [h EXCEPT !.pc = "bh_delete", !.dm_raised = raised]
         /\ user_data' = Popped(ud, h.update.s)
         /\ delete_calls' = delete_calls \cup {h.update.msg}

\* ------------------------------------------------------------ download_media
\* Faulty variant of Cancel: the task is left running.
Cancel_Noop(task) == task

\* Faulty variant of Cancel: a task caught in its emit call is left running.
Cancel_ReadyOnly(task) ==
    IF task.state = "ready" THEN [task EXCEPT !.state = "done"] ELSE task

\* task.cancel(), guarded by `not task.done()` at lines 230, 276, 278: a task
\* that has not ended is cancelled and never runs its coroutine again; it is
\* then done(), like a task that returned or raised.
Cancel(task) ==
    IF task.state \in {"ready", "emitting"} THEN [task EXCEPT !.state = "done"]
    ELSE task

\* Faulty variant of FlagsCleared: only the uploading flag is cleared.
FlagsCleared_UploadingOnly(ud, s) == [ud EXCEPT ![s].uploading = FALSE]

\* lines 274-275
FlagsCleared(ud, s) == [ud EXCEPT ![s].processing = FALSE, ![s].uploading = FALSE]

\* cleanup_file, lines 59-66: the disks it may leave (os.remove may fail with
\* OSError, which is only logged).
CleanupFile(file_path, d) ==
    IF file_path # NoPath /\ file_path \in d THEN {d \ {file_path}, d} ELSE {d}

\* The outer finally block, lines 272-281, then the return (or the exception)
\* to the caller.  d is the call's record as the block finds it.
DmFinally(d, raised) ==
    /\ processing_task' = Cancel(processing_task)
    /\ upload_task' = Cancel(upload_task)
    /\ disk' \in CleanupFile(d.downloaded_file_path, disk)
    /\ dm' = [d EXCEPT !.pc = IF raised THEN "raised" ELSE "returned"]
    /\ ReturnToHandler(FlagsCleared(user_data, d.s), raised)

\* The edit of the status message to text is issued (awaited next).
IssueEdit(d, text, pc) == [d EXCEPT !.edits = @ \cup {text}, !.pc = pc]

\* `except Exception`, lines 261-265, up to the await of the edit.
CatchUnexpected(d) ==
    IssueEdit([d EXCEPT !.error_message = T_Unexpected], T_Unexpected,
              "edit_unexpected")

\* lines 105/109 complete.  A failure leaves download_media before its try
\* block.  Otherwise lines 112-127 run to the await of the "Downloading" edit.
DM_SendStatusDone ==
    /\ dm.pc = "send_status"
    /\ \E ok \in BOOLEAN :
         IF ok
         THEN /\ dm' = IssueEdit([dm EXCEPT !.status_id = Msg(h.update.n, "status"),
                                            !.status_text = T_Processing,
                                            !.token = h.update.n],
                                 T_Downloading, "edit_downloading")
              /\ user_data' = [user_data EXCEPT ![dm.s].processing = TRUE]
              /\ processing_task' = NewTask
              /\ upload_task' = NoTask
              /\ UNCHANGED << h, delete_calls >>
         ELSE /\ dm' = [dm EXCEPT !.pc = "raised"]
              /\ ReturnToHandler(user_data, TRUE)
              /\ UNCHANGED << processing_task, upload_task >>
    /\ UNCHANGED << locator_run, users, selection, update_queue, n_updates, prompts, disk, acquisitions >>

\* One more engine call for the selection stored by link message l.
Counted(bag, l) ==
    [x \in DOMAIN bag \cup {l} |->
        IF x = l THEN (IF l \in DOMAIN bag THEN bag[l] + 1 ELSE 1) ELSE bag[x]]

\* line 127 completes; on success run_youtubedl is called (line 128) and the
\* engine starts in a worker thread (line 90).
DM_EditDownloadingDone ==
    /\ dm.pc = "edit_downloading"
    /\ \E ok \in BOOLEAN :
         IF ok
         THEN /\ dm' = [dm EXCEPT !.status_text = T_Downloading, !.pc = "engine",
                                  !.started = TRUE]
              /\ acquisitions' = IF h.update.kind = "callback"
                                 THEN Counted(acquisitions, selection[dm.s].link)
                                 ELSE acquisitions
         ELSE /\ dm' = CatchUnexpected(dm)
              /\ UNCHANGED acquisitions
    /\ UNCHANGED << locator_run, users, user_data, selection, update_queue, n_updates, prompts,
                    h, processing_task, upload_task, disk, delete_calls >>

\* What the worker thread may end with (lines 74-87): "ok" with the info
\* dict, a DownloadError with its message, or another exception.
EngineOutcomes ==
    { [kind |-> "ok", msg |-> <<>>] }
    \cup { [kind |-> "DownloadError", msg |-> m] : m \in DownloadErrorMessages }
    \cup { [kind |-> "Exception", msg |-> <<>>] }

\* The files the run may have written, by its outcome.
WrittenBy(r, token) ==
    IF r.kind = "ok" THEN EngineFileSets(token) ELSE FailedFileSets(token)

\* lines 134-168 over every info dict the engine may have returned.
LocatorOutcomes(token, d) ==
    UNION { LocatedPaths(i, OutTmpl(token), d) : i \in InfoDicts(token) }

\* The text of the "Uploading {file_type}..." edit, line 175.
UploadingText(ft) == IF ft = "video" THEN T_UploadingVideo ELSE T_UploadingAudio

\* line 128 completes: the engine has run in its thread and left files under
\* the output template.  Result: lines 131-175 (stop the typing signaler,
\* locate the file, issue the "Uploading" edit or raise FileNotFoundError into
\* lines 253-257).  DownloadError: lines 234-249.  Another exception: lines
\* 261-265.
DM_EngineDone ==
    /\ dm.pc = "engine"
    /\ \E r \in EngineOutcomes : \E written \in WrittenBy(r, dm.token) :
         /\ disk' = disk \cup written
         /\ IF r.kind = "ok"
            THEN /\ user_data' = [user_data EXCEPT ![dm.s].processing = FALSE]
                 /\ processing_task' = Cancel(processing_task)
                 /\ \E path \in LocatorOutcomes(dm.token, disk \cup written) :
                      dm' = IF path = NoPath
                            THEN IssueEdit([dm EXCEPT !.result = r,
                                                      !.error_message = T_NotFound],
                                           T_NotFound, "edit_not_found")
                            ELSE IssueEdit(
                                   [dm EXCEPT !.result = r,
                                              !.downloaded_file_path = path,
                                              !.file_type = file_type(dm.format)],
                                   UploadingText(file_type(dm.format)),
                                   "edit_uploading")
            ELSE /\ dm' = IF r.kind = "DownloadError"
                          THEN IssueEdit(
                                 [dm EXCEPT !.result = r,
                                            !.error_message =
                                                download_error_message(r.msg)],
                                 download_error_message(r.msg),
                                 "edit_download_error")
                          ELSE CatchUnexpected([dm EXCEPT !.result = r])
                 /\ UNCHANGED << user_data, processing_task >>
    /\ UNCHANGED << locator_run, users, selection, update_queue, n_updates, prompts, h,
                    upload_task, acquisitions, delete_calls >>

\* The keyword arguments of the send call, lines 187-207: <<keyword, value>>,
\* the value named by the variable or the info_dict field it is taken from.
SendKwargs(ft) ==
    LET common == { <<"chat_id", "chat_id">>, <<"duration", "duration">>,
                    <<"reply_to_message_id", "message_id">>,
                    <<"write_timeout", "180">> }
    IN  IF ft = "audio"
        THEN common \cup { <<"title", "title">> }
        ELSE common \cup { <<"caption", "title">>, <<"width", "width">>,
                           <<"height", "height">>,
                           <<"supports_streaming", "True">> }

\* lines 194-208: send_audio for file_type 'audio', else send_video.
SendVerb(ft) == IF ft = "audio" THEN "send_audio" ELSE "send_video"

\* line 175 completes; on success lines 177-208 start the upload signaler and
\* issue send_audio / send_video.
DM_EditUploadingDone ==
    /\ dm.pc = "edit_uploading"
    /\ \E ok \in BOOLEAN :
         IF ok
         THEN /\ dm' = [dm EXCEPT !.status_text = UploadingText(dm.file_type),
                                  !.send = "inflight",
                                  !.verb = SendVerb(dm.file_type),
                                  !.send_kwargs = SendKwargs(dm.file_type),
                                  !.pc = "send_file"]
              /\ user_data' = [user_data EXCEPT ![dm.s].uploading = TRUE]
              /\ upload_task' = NewTask
         ELSE /\ dm' = CatchUnexpected(dm)
              /\ UNCHANGED << locator_run, users, user_data, upload_task >>
    /\ UNCHANGED << locator_run, users, selection, update_queue, n_updates, prompts, h,
                    processing_task, disk, acquisitions, delete_calls >>

\* `except Exception as send_error`, lines 212-223, up to the await of the edit.
CatchSendError(d, detail) ==
    IssueEdit([d EXCEPT !.error_message = send_error_message(detail)],
              send_error_message(detail), "edit_send_error")

\* lines 195/208 complete; on success status_message.delete() is issued
\* (line 210).
DM_SendFileDone ==
    /\ dm.pc = "send_file"
    /\ \/ /\ dm' = [dm EXCEPT !.send = "ok", !.pc = "delete_status"]
          /\ delete_calls' = delete_calls \cup {dm.status_id}
       \/ /\ \E detail \in SendErrors :
               dm' = CatchSendError([dm EXCEPT !.send = "failed"], detail)
          /\ UNCHANGED delete_calls
    /\ UNCHANGED << locator_run, users, user_data, selection, update_queue, n_updates, prompts,
                    h, processing_task, upload_task, disk, acquisitions >>

\* The inner finally block, lines 227-231.
InnerFinally ==
    /\ user_data' = [user_data EXCEPT ![dm.s].uploading = FALSE]
    /\ upload_task' = Cancel(upload_task)

\* line 210 completes.  Success: inner finally, outer finally, return.  A
\* failure is caught by the `except Exception as send_error` of line 212.
DM_DeleteStatusDone ==
    /\ dm.pc = "delete_status"
    /\ \/ /\ DmFinally([dm EXCEPT !.status_deleted = TRUE], FALSE)
       \/ /\ \E detail \in {"Timed out", "other"} : dm' = CatchSendError(dm, detail)
          /\ UNCHANGED << locator_run, users, user_data, h, processing_task, upload_task, disk,
                          delete_calls >>
    /\ UNCHANGED << locator_run, users, selection, update_queue, n_updates, prompts, acquisitions >>

\* line 223 completes.  Success: inner finally, outer finally, return.  A
\* failure leaves the inner try statement through its finally block and is
\* caught by the outer `except Exception` (line 261).
DM_EditSendErrorDone ==
    /\ dm.pc = "edit_send_error"
    /\ \/ DmFinally([dm EXCEPT !.status_text = dm.error_message], FALSE)
       \/ /\ InnerFinally
          /\ dm' = CatchUnexpected(dm)
          /\ UNCHANGED << h, processing_task, disk, delete_calls >>
    /\ UNCHANGED << locator_run, users, selection, update_queue, n_updates, prompts,
                    acquisitions >>

\* lines 249 / 257 complete (a failure is only logged); finally; return.
DM_EditErrorDone ==
    /\ dm.pc \in {"edit_download_error", "edit_not_found"}
    /\ \E ok \in BOOLEAN :
         DmFinally(IF ok THEN [dm EXCEPT !.status_text = dm.error_message] ELSE dm,
                   FALSE)
    /\ UNCHANGED << locator_run, users, selection, update_queue, n_updates, prompts,
                    acquisitions >>

\* line 265 completes.  Success: finally; return.  Failure: lines 266-270
\* issue a new message when message_id is set, else finally; return.
DM_EditUnexpectedDone ==
    /\ dm.pc = "edit_unexpected"
    /\ \/ DmFinally([dm EXCEPT !.status_text = dm.error_message], FALSE)
       \/ /\ dm.message_id # NoMsg
          /\ dm' = [dm EXCEPT !.pc = "send_fallback"]
          /\ UNCHANGED << locator_run, users, user_data, h, processing_task, upload_task, disk,
                          delete_calls >>
       \/ /\ dm.message_id = NoMsg
          /\ DmFinally(dm, FALSE)
    /\ UNCHANGED << locator_run, users, selection, update_queue, n_updates, prompts,
                    acquisitions >>

\* line 270 completes: finally; return, or the exception of send_message
\* leaves download_media.
DM_SendFallbackDone ==
    /\ dm.pc = "send_fallback"
    /\ \E ok \in BOOLEAN :
         DmFinally(IF ok THEN [dm EXCEPT !.fallback_sent = TRUE] ELSE dm, ~ok)
    /\ UNCHANGED << locator_run, users, selection, update_queue, n_updates, prompts,
                    acquisitions >>

\* ------------------------------------------------------------ the signalers
\* One pass of the while loop of send_typing_action / send_upload_action up
\* to its await of send_chat_action (lines 48-49 / 55-56): the flag is read;
\* a ping is issued, or the task ends.
SignalerCheck(task, flag) ==
    [task EXCEPT !.state = IF flag THEN "emitting" ELSE "done"]

\* Faulty variant of SignalerEmitted: the loop goes on after a failed emit.
SignalerEmitted_Retrying(task, ok) ==
    [task EXCEPT !.state = "ready"]

\* send_chat_action completes: sleep (lines 50 / 57), or the exception ends
\* the task.
SignalerEmitted(task, ok) ==
    [task EXCEPT !.state = IF ok THEN "ready" ELSE "done"]

TypingCheck ==
    /\ processing_task.state = "ready"
    /\ processing_task' = SignalerCheck(processing_task, user_data[dm.s].processing)
    /\ UNCHANGED << locator_run, users, user_data, selection, update_queue, n_updates, prompts,
                    h, dm, upload_task, disk, acquisitions, delete_calls >>

TypingEmitDone ==
    /\ processing_task.state = "emitting"
    /\ \E ok \in BOOLEAN : processing_task' = SignalerEmitted(processing_task, ok)
    /\ UNCHANGED << locator_run, users, user_data, selection, update_queue, n_updates, prompts,
                    h, dm, upload_task, disk, acquisitions, delete_calls >>

UploadCheck ==
    /\ upload_task.state = "ready"
    /\ upload_task' = SignalerCheck(upload_task, user_data[dm.s].uploading)
    /\ UNCHANGED << locator_run, users, user_data, selection, update_queue, n_updates, prompts,
                    h, dm, processing_task, disk, acquisitions, delete_calls >>

UploadEmitDone ==
    /\ upload_task.state = "emitting"
    /\ \E ok \in BOOLEAN : upload_task' = SignalerEmitted(upload_task, ok)
    /\ UNCHANGED << locator_run, users, user_data, selection, update_queue, n_updates, prompts,
                    h, dm, processing_task, disk, acquisitions, delete_calls >>

\* -------------------------------------------------------------- the system
Next ==
    \/ UserSendsLink
    \/ UserPressesButton
    \/ HandlerReturned
    \/ DispatchMessage
    \/ HM_ChatActionDone
    \/ HM_ReplyDone
    \/ HM_RejectDone
    \/ DispatchCallback
    \/ BH_AnswerDone
    \/ BH_ExpiredDone
    \/ BH_PreparingDone
    \/ BH_AskQualityDone
    \/ BH_DeleteDone
    \/ DM_SendStatusDone
    \/ DM_EditDownloadingDone
    \/ DM_EngineDone
    \/ DM_EditUploadingDone
    \/ DM_SendFileDone
    \/ DM_DeleteStatusDone
    \/ DM_EditSendErrorDone
    \/ DM_EditErrorDone
    \/ DM_EditUnexpectedDone
    \/ DM_SendFallbackDone
    \/ TypingCheck
    \/ TypingEmitDone
    \/ UploadCheck
    \/ UploadEmitDone

\* One session: the dispatcher runs one handler at a time, so the pipeline of
\* a session is never interleaved with a handler of another session.
Init == InitFor({"u1"}, NoRun)

Spec == Init /\ [][Next]_vars

\* The Output Locator on its own, over every info dict and every set of files
\* the engine may have left under the output template of the request.
LocatorToken == 1

InitLocator ==
    \E i \in InfoDicts(LocatorToken), d \in EngineFileSets(LocatorToken) :
        InitFor({"u1"}, [info_dict |-> i, disk |-> d, result |-> <<>>])

\* lines 134-168: the locator runs; result is <<path>>, or <<NoPath>> when it
\* raises FileNotFoundError.
LocatorRuns ==
    /\ locator_run.result = <<>>
    /\ \E path \in LocatedPaths(locator_run.info_dict, OutTmpl(LocatorToken),
                               locator_run.disk) :
         locator_run' = [locator_run EXCEPT !.result = <<path>>]
    /\ UNCHANGED << users, user_data, selection, update_queue, n_updates, prompts,
                    h, dm, processing_task, upload_task, disk, acquisitions,
                    delete_calls >>

SpecLocator == InitLocator /\ [][LocatorRuns]_vars

\* Both sessions take part.
InitTwoSessions == InitFor(Sessions, NoRun)

SpecTwoSessions == InitTwoSessions /\ [][Next]_vars

\* Scheduling.  The event loop runs every coroutine that is ready: a handler
\* step whose awaited Telegram call has completed is taken (the calls are
\* bounded by the timeouts of line 511 and by write_timeout, line 192), and so
\* is a signaler step (send_chat_action, asyncio.sleep(4)).  The engine call of
\* line 128 is awaited with no timeout (run_in_executor, line 90, and no
\* timeout option for yt-dlp): nothing obliges it to complete.  The users are
\* not obliged to send anything.
HandlerStep ==
    \/ HandlerReturned \/ DispatchMessage \/ HM_ChatActionDone \/ HM_ReplyDone
    \/ HM_RejectDone \/ DispatchCallback \/ BH_AnswerDone \/ BH_ExpiredDone
    \/ BH_PreparingDone \/ BH_AskQualityDone \/ BH_DeleteDone
    \/ DM_SendStatusDone \/ DM_EditDownloadingDone \/ DM_EditUploadingDone
    \/ DM_SendFileDone \/ DM_DeleteStatusDone \/ DM_EditSendErrorDone
    \/ DM_EditErrorDone \/ DM_EditUnexpectedDone \/ DM_SendFallbackDone

SignalerStep == TypingCheck \/ TypingEmitDone \/ UploadCheck \/ UploadEmitDone

SpecLive ==
    Init /\ [][Next]_vars /\ WF_vars(HandlerStep) /\ WF_vars(SignalerStep)

\* ================================================================== claims
\* download_media has finished: it returned, or an exception left it.
DmEnded == dm.pc \in {"returned", "raised"}

\* The handler has ended, normally or by an exception.
HandlerEnded == h.pc \in {"done", "failed"}

\* The stage of the session's Pending Selection.
Stage(s) ==
    IF user_data[s].pending_youtube_url = NoUrl THEN "none"
    ELSE IF selection[s].mp4 THEN "awaiting-quality"
    ELSE "awaiting-format"

\* A terminal choice event: format-choice mp3, or any quality-choice.
TerminalChoice(update) ==
    /\ update.kind = "callback"
    /\ update.data = <<"yt_format", "mp3">> \/ update.data[1] = "yt_quality"

\* C1: after download_media has finished by any path, no file whose name begins
\* with the request's unique token remains under the storage root.
C1_NoTokenFileRemains ==
    DmEnded => \A f \in disk : TokenOf(f) # dm.token

\* C2: for each Pending Selection stored by a link message at most one
\* acquisition is started, also when a second button press arrived while the
\* acquisition started by the first was running.
C2_AtMostOneAcquisition ==
    \A l \in DOMAIN acquisitions : acquisitions[l] <= 1

\* C2 witness: the acquisition of a choice is running and a second press of a
\* button of the same button message waits in the queue.
C2_SecondPressWhileRunning ==
    /\ dm.pc = "engine"
    /\ h.update.kind = "callback"
    /\ \E i \in 1..Len(update_queue) :
         /\ update_queue[i].kind = "callback"
         /\ update_queue[i].msg = h.update.msg
         /\ TerminalChoice(update_queue[i])

\* C3: a quality-choice event starts an acquisition only when the session is
\* at stage awaiting-quality.
C3_QualityOnlyWhenAwaitingQuality ==
    (dm.pc = "engine" /\ h.branch = "quality") => Stage(dm.s) = "awaiting-quality"

\* C4: a choice event handled when the session has no Pending Selection starts
\* no acquisition, leaves the Pending Selection absent, ends with the
\* selection-expired edit, and its handler does not fail.
C4_ExpiredChoiceRecovers ==
    (HandlerEnded /\ h.update.kind = "callback" /\ ~h.had_pending) =>
        /\ h.pc = "done"
        /\ h.branch = "expired"
        /\ dm.pc = "none"
        /\ user_data[h.update.s].pending_youtube_url = NoUrl

\* C5: when the handling of a terminal choice event finishes, whether its
\* download succeeded, failed with a classified error or raised, the session's
\* Pending Selection is absent.
C5_PendingAbsentAfterTerminalChoice ==
    (HandlerEnded /\ TerminalChoice(h.update)) =>
        user_data[h.update.s].pending_youtube_url = NoUrl

\* C6: when download_media has finished by any path, the processing flag and
\* the uploading flag of its session are false.
C6_IdleAfterDownloadMedia ==
    DmEnded => /\ ~user_data[dm.s].processing
               /\ ~user_data[dm.s].uploading

\* C6 witness: an exception has left download_media after the upload signaler
\* was started.
C6_RaisedAfterUpload ==
    dm.pc = "raised" /\ dm.send = "failed"

\* C7: no failure arising in the acquisition or delivery phase leaves
\* download_media: once the status message is sent, the call returns normally.
C7_NoFailurePropagates ==
    (DmEnded /\ dm.status_id # NoMsg) => dm.pc = "returned"

\* C8: on every successful delivery the status message is deleted and a delete
\* of the user's original request message is issued.
C8_OriginalMessageDeleted ==
    (HandlerEnded /\ dm.pc = "returned" /\ dm.send = "ok" /\ dm.status_deleted
        /\ dm.message_id # NoMsg)
    => dm.message_id \in delete_calls

\* C9: when the engine fails with a DownloadError, the status message is
\* edited to the user-facing text of the failure kind the engine reported, and
\* no audio or video send is attempted.
C9_AcquisitionErrorText ==
    (DmEnded /\ dm.result.kind = "DownloadError") =>
        /\ KindText(ErrorKind(dm.result.msg)) \in dm.edits
        /\ dm.send = "none"

\* C10: for every info dict without download manifest and without top-level
\* filepath/_filename, whatever its ext field, if the storage root holds a file
\* that begins with the request's token, the locator returns such a file.
C10_FallbackScanFinds ==
    ( /\ locator_run.result # <<>>
      /\ locator_run.info_dict # NoInfo
      /\ locator_run.info_dict.requested_downloads = <<>>
      /\ locator_run.info_dict.filepath = NoPath
      /\ locator_run.info_dict.x_filename = NoPath
      /\ \E f \in locator_run.disk : TokenOf(f) = LocatorToken )
    => /\ locator_run.result[1] # NoPath
       /\ locator_run.result[1] \in locator_run.disk

\* The locator has run on an info dict (not None).
LocatorRan == locator_run.result # <<>> /\ locator_run.info_dict # NoInfo

\* The path the download manifest reports for its first item, if any.
ReportedByManifest ==
    IF locator_run.info_dict.requested_downloads = <<>> THEN NoPath
    ELSE locator_run.info_dict.requested_downloads[1].filepath

\* C11: whenever the download manifest reports a path for its first item, the
\* locator chooses that path (it returns it when it exists and fails with
\* file-not-found when it does not), never a top-level field, a template
\* reconstruction or a directory-scan match, whatever the other fields and the
\* files in the storage root are.
C11_ManifestPathHasPriority ==
    (LocatorRan /\ ReportedByManifest # NoPath) =>
        locator_run.result[1] =
            IF ReportedByManifest \in locator_run.disk THEN ReportedByManifest
            ELSE NoPath

\* C11 witness: the manifest and the top-level field report different paths,
\* both exist, and the locator has returned the manifest's.
C11_ManifestChosenOverTopLevel ==
    /\ LocatorRan
    /\ ReportedByManifest # NoPath
    /\ locator_run.info_dict.filepath # NoPath
    /\ locator_run.info_dict.filepath # ReportedByManifest
    /\ locator_run.info_dict.filepath \in locator_run.disk
    /\ locator_run.result = <<ReportedByManifest>>

\* C19: the locator fails with file-not-found only when none of its candidates
\* exists: when the path reported by the manifest or by a top-level field does
\* not exist but the template reconstruction or the prefix scan yields an
\* existing file of the request, the locator returns a file.
C19_LaterStepsTriedWhenReportedPathMissing ==
    ( /\ LocatorRan
      /\ \E p \in { ReportedByManifest, locator_run.info_dict.filepath,
                     locator_run.info_dict.x_filename } :
             p # NoPath
      /\ \A p \in { ReportedByManifest, locator_run.info_dict.filepath,
                     locator_run.info_dict.x_filename } :
             p \notin locator_run.disk
      /\ \E f \in TemplatePaths(locator_run.info_dict, OutTmpl(LocatorToken),
                                 locator_run.disk) :
             f # NoPath /\ f \in locator_run.disk )
    => locator_run.result[1] # NoPath

\* The source kind of a URL: choice-offering (YouTube), audio-only
\* (SoundCloud), short-video (TikTok), or unknown.
SourceKind(url) ==
    IF "youtube" \in url THEN "choice-offering"
    ELSE IF "soundcloud" \in url THEN "audio-only"
    ELSE IF "tiktok" \in url THEN "short-video"
    ELSE "unknown"

\* The handler of a link message is running or has ended.
LinkHandled == h.pc # "idle" /\ h.update.kind = "message"

\* The link message being handled has stored a Pending Selection.
StoredSelection == selection[h.update.s].link = h.update.msg

\* The link message being handled was answered with a button message.
Prompted == \E p \in prompts : p.link = h.update.msg

\* C12: a link message goes directly to the acquisition pipeline, with no
\* prompt and without storing a Pending Selection, exactly when its source kind
\* is audio-only or short-video (its handler ends normally only through
\* download_media, called with the URL and the profile of the kind); for an
\* unknown kind the rejection is sent and no acquisition is started; for the
\* choice-offering kind the Pending Selection is stored and the format prompt
\* is sent without an acquisition.
C12_LinkRouting ==
    LinkHandled =>
        CASE SourceKind(h.url) \in {"audio-only", "short-video"} ->
                 /\ ~StoredSelection
                 /\ ~Prompted
                 /\ h.pc \in {"hm_in_dm", "done"} => dm.pc # "none"
                 /\ dm.pc # "none" =>
                        /\ dm.url = h.url
                        /\ dm.format = IF SourceKind(h.url) = "audio-only"
                                       THEN AudioFormat ELSE TikTokFormat
          [] SourceKind(h.url) = "unknown" ->
                 /\ h.branch = "unknown"
                 /\ ~StoredSelection
                 /\ ~Prompted
                 /\ dm.pc = "none"
          [] OTHER ->
                 /\ StoredSelection
                 /\ user_data[h.update.s].pending_youtube_url = h.url
                 /\ dm.pc = "none"
                 /\ h.pc = "done" =>
                        \E p \in prompts : /\ p.link = h.update.msg
                                            /\ p.text = "choose-format"

\* C12 witness: the handler of a TikTok link has ended after the engine was
\* started for it, with no prompt and no Pending Selection.
C12_TikTokAcquiredDirectly ==
    /\ LinkHandled
    /\ h.pc = "done"
    /\ SourceKind(h.url) = "short-video"
    /\ dm.started
    /\ user_data[h.update.s].pending_youtube_url = NoUrl

\* The session on whose behalf a step is taken: the session of the update the
\* running handler (with its pipeline, signalers and cleanup) works on, or of
\* the update a user sends in the step.
ActingSession ==
    IF h.pc # "idle" THEN h.update.s
    ELSE IF h'.pc # "idle" THEN h'.update.s
    ELSE update_queue'[Len(update_queue')].s

DmRunning == dm.pc \notin {"none", "returned", "raised"}

\* C14: every started pipeline eventually reaches its cleanup step and
\* download_media terminates, also when the engine call or the send does not
\* return by itself (a timeout ends the phase).
C14_PipelineTerminates == DmRunning ~> DmEnded

\* The steps of download_media.
PipelineStep ==
    \/ DM_SendStatusDone \/ DM_EditDownloadingDone \/ DM_EngineDone
    \/ DM_EditUploadingDone \/ DM_SendFileDone \/ DM_DeleteStatusDone
    \/ DM_EditSendErrorDone \/ DM_EditErrorDone \/ DM_EditUnexpectedDone
    \/ DM_SendFallbackDone

\* Everything but the two signaler tasks.
RequestState ==
    << users, user_data, selection, update_queue, n_updates, prompts, h, dm, disk,
       acquisitions, delete_calls, locator_run >>

\* A step in which the emit call of a signaler task completes (the pipeline
\* itself changes a task only together with dm, when it cancels it).
EmitCompletes(task, task_after) ==
    task.state = "emitting" /\ task_after # task /\ dm' = dm

\* C15: a failure of a signaler's emit call never changes the pipeline's
\* outcome.  An emit call can fail, and the failure ends the task; the step
\* changes nothing but the task; an ended task never emits again (no retry);
\* and whatever the tasks' states are, the pipeline can take its next step.
C15_EmitFailureIsHarmless ==
    /\ [](/\ processing_task.state = "emitting" =>
                ENABLED (TypingEmitDone /\ processing_task'.state = "done")
          /\ upload_task.state = "emitting" =>
                ENABLED (UploadEmitDone /\ upload_task'.state = "done")
          /\ DmRunning => ENABLED PipelineStep)
    /\ [][ /\ EmitCompletes(processing_task, processing_task') =>
                /\ processing_task'.state \in {"ready", "done"}
                /\ UNCHANGED << RequestState, upload_task >>
           /\ EmitCompletes(upload_task, upload_task') =>
                /\ upload_task'.state \in {"ready", "done"}
                /\ UNCHANGED << RequestState, processing_task >>
           /\ processing_task.state = "done" =>
                processing_task'.state \in {"done", "none"}
           /\ upload_task.state = "done" =>
                upload_task'.state \in {"done", "none"} ]_vars

\* C15 witness: the upload signaler has ended although the uploading flag is
\* still set (its emit call failed) and the typing signaler had ended the same
\* way, while the send of the file is under way.
C15_SignalersFailedDuringSend ==
    /\ dm.pc = "send_file"
    /\ user_data[dm.s].uploading
    /\ upload_task.state = "done"
    /\ processing_task.state = "done"

\* The request of the running handler uses an audio-extract profile
\* (SoundCloud link, YouTube mp3 choice); the others use a video-prefixed
\* profile (TikTok link, YouTube quality choice).
AudioExtractRequest == h.branch \in {"soundcloud", "mp3"}

\* C16: the delivery verb is determined by the profile's format spec only: the
\* audio verb exactly for the audio-extract profiles, the video verb for the
\* video-prefixed profiles (TikTok, YouTube mp4 at every quality ceiling),
\* whatever the extension of the located file; the video send carries the
\* reported title as caption.
C16_VerbFollowsProfile ==
    dm.send # "none" =>
        /\ dm.verb = IF AudioExtractRequest THEN "send_audio" ELSE "send_video"
        /\ dm.verb = "send_video" => <<"caption", "title">> \in dm.send_kwargs
        /\ dm.verb = "send_audio" => <<"title", "title">> \in dm.send_kwargs

\* C16 witness: the quality choice 360 was delivered with the video verb
\* although the located file has the extension mp3.
C16_VideoVerbForMp3File ==
    /\ h.branch = "quality"
    /\ h.update.data[2] = "360"
    /\ dm.send = "ok"
    /\ dm.verb = "send_video"
    /\ dm.downloaded_file_path = Path(dm.token, "mp3")

\* An alternative of a format spec asks for an exact container (some selector
\* has an ext filter), is relaxed (a height filter only), or is unrestricted.
Rank(alt) ==
    IF \E i \in 1..Len(alt) : alt[i].ext # None THEN 1
    ELSE IF \E i \in 1..Len(alt) : alt[i].height # None THEN 2
    ELSE 3

\* A preference list that degrades from exact-container match to
\* relaxed-codec match to unrestricted best, every height filter capping at q.
DegradesMonotonically(format, q) ==
    /\ Len(format) >= 3
    /\ Rank(format[1]) = 1
    /\ \E i \in 1..Len(format) : Rank(format[i]) = 2
    /\ Rank(format[Len(format)]) = 3
    /\ \A i, j \in 1..Len(format) : i < j => Rank(format[i]) <= Rank(format[j])
    /\ \A i \in 1..Len(format) : \A k \in 1..Len(format[i]) :
          format[i][k].height \in {None, q}
    /\ \A i \in 1..Len(format) :
          Rank(format[i]) < 3 => \E k \in 1..Len(format[i]) : format[i][k].height = q

\* C17: for every quality ceiling q in {360, 480, 720, 1080} the format spec
\* built by the quality choice is an ordered preference list from
\* exact-container match to relaxed-codec match to unrestricted best, every
\* height filter caps at q, and no restricted alternative follows the
\* unrestricted one; the pipeline of a quality choice runs with that spec.
C17_QualityFormatDegrades ==
    (h.branch = "quality" /\ dm.pc # "none") =>
        /\ h.update.data[2] \in Qualities
        /\ DegradesMonotonically(dm.format, h.update.data[2])

\* C17 witness: the engine runs for the quality choice 1080: every alternative
\* of its format spec but the last caps the height at 1080.
C17_EngineRunsQualityChoice ==
    /\ h.branch = "quality"
    /\ h.update.data[2] = "1080"
    /\ dm.pc = "engine"
    /\ Len(dm.format) = 4
    /\ \A i \in 1..3 : \E k \in 1..Len(dm.format[i]) : dm.format[i][k].height = "1080"

\* ---------------------------------------------------------------- C18
\* The send call of the file (send_audio / send_video, lines 195 / 208) is
\* issued in this step.
SendStarts == dm.send # "inflight" /\ dm'.send = "inflight"

\* cleanup_file removes the located file in this step of the running call
\* (line 62, called from line 281).
FileRemoved ==
    /\ DmRunning
    /\ dm.downloaded_file_path \in disk
    /\ dm.downloaded_file_path \notin disk'

\* The order of acquire, locate and deliver: while the engine call is under
\* way nothing is located and nothing is sent; a path is located only after
\* the engine has returned a result and names a file that existed then; the
\* send starts from the step after the locator, with the engine's result in
\* hand and the located file on the disk, and the file stays there for as long
\* as the send is in flight.
AcquireLocateDeliverInOrder ==
    /\ [](/\ dm.pc \in {"send_status", "edit_downloading", "engine"} =>
                /\ dm.result = NoResult
                /\ dm.downloaded_file_path = NoPath
                /\ dm.send = "none"
          /\ dm.downloaded_file_path # NoPath =>
                /\ dm.result.kind = "ok"
                /\ TokenOf(dm.downloaded_file_path) = dm.token
          /\ dm.send # "none" => dm.downloaded_file_path # NoPath
          /\ dm.send = "inflight" <=> dm.pc = "send_file"
          /\ dm.send = "inflight" => dm.downloaded_file_path \in disk)
    /\ [][ /\ SendStarts =>
                /\ dm.pc = "edit_uploading"
                /\ dm.result.kind = "ok"
                /\ dm.downloaded_file_path \in disk
                /\ dm'.downloaded_file_path = dm.downloaded_file_path
                /\ disk' = disk
           /\ (dm.downloaded_file_path = NoPath
                 /\ dm'.downloaded_file_path # NoPath) =>
                /\ dm.pc = "engine"
                /\ dm'.downloaded_file_path \in disk'
           /\ FileRemoved =>
                /\ dm'.pc \in {"returned", "raised"}
                /\ dm.send # "inflight" ]_vars

\* C18 as stated: the phases run in the order acquire, locate, deliver,
\* cleanup with no overlap: a send of the file starts only after the engine
\* call has returned and the locator has produced an existing path, and the
\* file is removed only after the send call has finished (succeeded or
\* failed).
C18_RemovalOnlyAfterSendFinished ==
    /\ AcquireLocateDeliverInOrder
    /\ [][FileRemoved => dm.send \in {"ok", "failed"}]_vars

\* C18, amended: the phases run in the order acquire, locate, deliver, cleanup
\* with no overlap: a send of the file starts only after the engine call has
\* returned and the locator has produced an existing path, and the file is
\* removed only by the step that ends download_media, when no send call is in
\* flight: after the send call has finished (succeeded or failed), or in a
\* request whose send call was never issued because the "Uploading" edit
\* before it (line 175) failed.
C18_PhasesInOrder ==
    /\ AcquireLocateDeliverInOrder
    /\ [][FileRemoved =>
             \/ dm.send \in {"ok", "failed"}
             \/ /\ dm.send = "none"
                /\ dm.pc \in {"edit_unexpected", "send_fallback"}
                /\ T_Unexpected \in dm.edits]_vars

\* C18 witness: all four phases have run: the engine returned, the file was
\* located, the send call finished with an error and the file is removed.
C18_RemovedAfterSendFailed ==
    /\ dm.pc = "returned"
    /\ dm.result.kind = "ok"
    /\ dm.downloaded_file_path # NoPath
    /\ dm.send = "failed"
    /\ dm.downloaded_file_path \notin disk

\* ---------------------------------------------------------------- C20
\* asyncio.create_task(send_typing_action(...)) (line 114) /
\* asyncio.create_task(send_upload_action(...)) (line 179) runs in this step.
TaskStarts(task, task_after) == task.state = "none" /\ task_after.state # "none"

\* The task exists and has not ended: it may still emit.
Alive(task) == task.state \in {"ready", "emitting"}

\* C20: the signalers run in lock-step with their phase.  The processing
\* signaler is started, with its flag set, before the engine call starts; the
\* uploading signaler is started only when the processing flag is cleared and
\* the processing task cancelled (ended); so no session has both flags true,
\* the two tasks are never both alive and never both in an emit call.
C20_SignalersInLockStep ==
    /\ [](/\ \A s \in Sessions :
                ~(user_data[s].processing /\ user_data[s].uploading)
          /\ ~(processing_task.state = "emitting"
                 /\ upload_task.state = "emitting")
          /\ ~(Alive(processing_task) /\ Alive(upload_task))
          /\ dm.pc = "engine" => processing_task.state # "none"
          /\ upload_task.state # "none" =>
                /\ processing_task.state = "done"
                /\ ~user_data[dm.s].processing
          /\ Alive(upload_task) => dm.pc = "send_file" \/ dm.pc = "delete_status"
                                      \/ dm.pc = "edit_send_error")
    /\ [][ /\ (dm.pc # "engine" /\ dm'.pc = "engine") =>
                /\ processing_task.state # "none"
                /\ user_data[dm.s].processing
           /\ TaskStarts(processing_task, processing_task') =>
                /\ dm.pc = "send_status"
                /\ user_data'[dm.s].processing
                /\ upload_task'.state = "none"
           /\ TaskStarts(upload_task, upload_task') =>
                /\ dm.pc = "edit_uploading"
                /\ ~user_data[dm.s].processing
                /\ processing_task.state = "done"
                /\ user_data'[dm.s].uploading ]_vars

\* C20 witness: the uploading signaler is in its emit call during the send,
\* the processing flag is cleared and the processing task has ended.
C20_UploadEmitsAfterTypingCancelled ==
    /\ dm.pc = "send_file"
    /\ upload_task.state = "emitting"
    /\ user_data[dm.s].uploading
    /\ ~user_data[dm.s].processing
    /\ processing_task.state = "done"

\* ---------------------------------------------------------------- C21
\* The task issues a ping (send_chat_action, lines 49 / 56) in this step.
PingStarts(task, task_after) ==
    task.state # "emitting" /\ task_after.state = "emitting"

\* C21: every signaler ping is preceded by a read of the session's phase flag
\* that shows the signaler's own phase: a ping is issued only by the task's
\* own pass through the loop condition, which found the task's flag true.
\* And once download_media has finished, every signaler task it started has
\* terminated (so it terminates eventually, having done so by then) and emits
\* no further indicator for that request: it is in no emit call, it issues no
\* ping and it stays ended until the handler's records are dropped.
C21_PingAfterFlagReadAndStopAtFinish ==
    /\ [](DmEnded =>
            /\ processing_task.state \in {"none", "done"}
            /\ upload_task.state \in {"none", "done"}
            /\ ~user_data[dm.s].processing
            /\ ~user_data[dm.s].uploading)
    /\ [][ /\ PingStarts(processing_task, processing_task') =>
                /\ processing_task.state = "ready"
                /\ user_data[dm.s].processing
                /\ DmRunning
                /\ UNCHANGED << RequestState, upload_task >>
           /\ PingStarts(upload_task, upload_task') =>
                /\ upload_task.state = "ready"
                /\ user_data[dm.s].uploading
                /\ DmRunning
                /\ UNCHANGED << RequestState, processing_task >>
           /\ DmEnded =>
                /\ ~PingStarts(processing_task, processing_task')
                /\ ~PingStarts(upload_task, upload_task')
                /\ processing_task'.state \in {processing_task.state, "none"}
                /\ upload_task'.state \in {upload_task.state, "none"} ]_vars

\* C21 witness: download_media has returned after a send that succeeded while
\* the handler is still running; both signaler tasks it started have ended.
C21_BothSignalersEndedAtFinish ==
    /\ dm.pc = "returned"
    /\ dm.send = "ok"
    /\ HandlerRunning
    /\ processing_task.state = "done"
    /\ upload_task.state = "done"

\* ---------------------------------------------------------------- C22
\* The texts that tell the user that the delivery or the request failed
\* (lines 217-221 and 263).
DeliveryErrorTexts == {T_TooLarge, T_UploadTimeout, T_SendFailed, T_Unexpected}

\* C22: if the send of the file to the chat succeeded, the user is never shown
\* an error text for that request: neither the status message shows a
\* delivery error text or the unexpected-error text, nor is one sent as a new
\* message.
C22_NoErrorTextAfterSuccessfulSend ==
    dm.send = "ok" =>
        /\ dm.status_text \notin DeliveryErrorTexts
        /\ ~dm.fallback_sent

\* ---------------------------------------------------------------- C23
\* The link message whose URL the session's slot holds: the one the running
\* choice handler has read its URL from (line 392).
ConsumedLink == selection[h.update.s].link

\* The link messages the pressed button message was issued for (line 369; the
\* quality keyboard of line 465 is an edit of the same message).
PressedPromptLinks == { p.link : p \in PromptOf(h.update) }

\* The slot of a session changes only when a link handler of the session
\* stores its URL (line 357) or when a choice handler of the session removes
\* the URL it has read (lines 392, 445, 495): no handler removes a selection
\* stored after its own read.
OnlyConsumedSelectionCleared ==
    [][\A s \in Sessions :
         user_data'[s].pending_youtube_url # user_data[s].pending_youtube_url =>
            \/ /\ h'.update.kind = "message"
               /\ h'.update.s = s
               /\ user_data'[s].pending_youtube_url = h'.update.url
               /\ selection'[s].link = h'.update.msg
            \/ /\ h.update.kind = "callback"
               /\ h.update.s = s
               /\ user_data[s].pending_youtube_url = h.url
               /\ user_data'[s].pending_youtube_url = NoUrl
               /\ selection'[s] = selection[s]]_vars

\* C23: the completion of a request clears only the Pending Selection that
\* the request consumed, and a choice event always downloads the URL of the
\* link message its button message was issued for: whenever download_media
\* runs for a choice event, the URL it was given is the one stored by the link
\* message of the pressed button message.
C23_ChoiceDownloadsItsOwnLink ==
    /\ OnlyConsumedSelectionCleared
    /\ []((h.update.kind = "callback" /\ dm.pc # "none") =>
            /\ dm.url = h.url
            /\ PressedPromptLinks \subseteq {ConsumedLink})

\* ---------------------------------------------------------------- C24
\* download_media stays in the same awaited call (the engine call of line 128
\* or the send call of lines 195 / 208) over this step.
CallInProgress(pc) == dm.pc = pc /\ dm'.pc = pc

\* The task is not stopped in this step: if it was waiting for its next pass
\* it still is, or it has issued its ping.
NotStopped(task, task_after) ==
    task.state = "ready" => task_after.state \in {"ready", "emitting"}

\* C24: while a request's engine call is in progress the session's processing
\* flag is true, and while its send call is in progress the session's
\* uploading flag is true, also when other updates of the same session arrive
\* in the meantime: over every step taken while the call is in progress the
\* flags, the call and the handler that made it stay as they are (no other
\* request of the session starts or finishes), and the signaler of the phase
\* is not stopped.
C24_FlagsHeldDuringCalls ==
    /\ [](/\ dm.pc = "engine" =>
                /\ user_data[dm.s].processing
                /\ h.pc \in {"hm_in_dm", "bh_in_dm"}
                /\ h.update.s = dm.s
          /\ dm.pc = "send_file" =>
                /\ user_data[dm.s].uploading
                /\ h.pc \in {"hm_in_dm", "bh_in_dm"}
                /\ h.update.s = dm.s)
    /\ [][ /\ (CallInProgress("engine") \/ CallInProgress("send_file")) =>
                /\ user_data' = user_data
                /\ h' = h
                /\ dm' = dm
           /\ CallInProgress("engine") =>
                NotStopped(processing_task, processing_task')
           /\ CallInProgress("send_file") =>
                NotStopped(upload_task, upload_task') ]_vars

\* C24 witness: the engine call of a request is in progress, its typing
\* signaler is pinging with the flag set, and another update of the same
\* session has arrived and waits in the queue.
C24_EngineRunsWhileUpdateWaits ==
    /\ dm.pc = "engine"
    /\ user_data[dm.s].processing
    /\ processing_task.state = "emitting"
    /\ \E i \in 1..Len(update_queue) : update_queue[i].s = dm.s

====
